---- MODULE Spec2Model ----
(***************************************************************************)
(* Model of backend/main.py: the payin classifier (classify_payin), the    *)
(* decision-table evaluator and payout calculator (apply_formula_directly) *)
(* and the part of process_files that normalises a parsed batch and hands  *)
(* it to the evaluator.                                                     *)
(*                                                                         *)
(* Python values are tagged records:                                       *)
(*   [t |-> "str", s |-> "TW TP"]      a str                               *)
(*   [t |-> "int", n |-> 35]           an int                              *)
(*   [t |-> "float", h |-> 2001]       a float, h in hundredths (20.01)    *)
(*   [t |-> "bool", b |-> TRUE]        a bool                              *)
(*   [t |-> "none"]                    None                                *)
(*   [t |-> "dict", d |-> f]           a dict, f a function on its keys    *)
(* Text is a TLA+ string; the str methods the code calls (in, upper,       *)
(* replace, strip, split) are computed character by character.             *)
(* Floats are fixed-point: a payin is an integer number of hundredths of a *)
(* percent, a payout an integer number of ten-thousandths, so that the     *)
(* products by 0.9 and 0.88 are exact.  The inputs drawn have at most two  *)
(* fractional digits and none of float()'s exponent, underscore, inf or    *)
(* nan spellings; none is a negative zero, and none has a product by 0.9   *)
(* that lies exactly between two hundredths (0.05 x 0.9), where the binary *)
(* float's own rounding error decides the digit printed.  The average of   *)
(* the summary is computed on the binary doubles themselves (sum() adding  *)
(* from the left, as CPython does up to 3.11), so that round(avg_payin, 1) *)
(* sees the rounding error of the sum and of the division.                 *)
(*                                                                         *)
(* A TLA+ string holds the characters of its literals only: of the         *)
(* whitespace str.strip() removes, space, \t, \n, \r and \f; of the        *)
(* characters a worksheet cell refuses, \f.  The inputs drawn hold no      *)
(* other control character (\x0b, \x1c to \x1f) and no Unicode space; no   *)
(* Segment is a dict or a list.                                            *)
(***************************************************************************)
EXTENDS Integers, Sequences, FiniteSets, TLC

VARIABLES
    entry,            \* which function was called: "process_files" or "apply_formula_directly"
    policy_data,      \* the batch: a sequence of Python values (the parsed records)
    company_name,     \* the company name given with the batch
    pc,               \* position: "start", "classify", "apply", "summary", "returned", "raised"
    i,                \* index of the next record of the running loop
    calculated_data,  \* apply_formula_directly's list of result records
    locals,           \* per finished iteration of apply_formula_directly's loop: its locals
    metrics,          \* process_files' summary of the batch
    raised,           \* the exception message that left the call, "" if none
    formula_data,     \* the list the module-level name FORMULA_DATA is bound to
    first_run,        \* the result of the first call, once it is evaluated again
    status            \* the status of process_policy's response, 0 before it

vars == <<entry, policy_data, company_name, pc, i, calculated_data, locals, metrics, raised,
          formula_data, first_run, status>>

-----------------------------------------------------------------------------
(* Python values *)

StrV(s) == [t |-> "str", s |-> s]
IntV(n) == [t |-> "int", n |-> n]
FloatV(h) == [t |-> "float", h |-> h]
BoolV(b) == [t |-> "bool", b |-> b]
NoneV == [t |-> "none"]
DictV(d) == [t |-> "dict", d |-> d]

IsDict(v) == v.t = "dict"

\* dict.get(key, default)
Get(d, key, default) == IF key \in DOMAIN d THEN d[key] ELSE default

\* d[key] = value on a copy of d
Put(d, key, value) ==
    [k \in DOMAIN d \cup {key} |-> IF k = key THEN value ELSE d[k]]

\* del d[key]
Del(d, key) == [k \in DOMAIN d \ {key} |-> d[k]]

-----------------------------------------------------------------------------
(* str methods *)

Chr(s, k) == SubSeq(s, k, k)

\* needle in hay
Contains(needle, hay) ==
    \E k \in 0..(Len(hay) - Len(needle)) : SubSeq(hay, k + 1, k + Len(needle)) = needle

\* any(k in hay for k in keywords)
AnyIn(keywords, hay) == \E k \in keywords : Contains(k, hay)

LowerAlphabet == "abcdefghijklmnopqrstuvwxyz"
UpperAlphabet == "ABCDEFGHIJKLMNOPQRSTUVWXYZ"

\* The upper-case letter of each lower-case letter.
UpperOf ==
    [c \in {Chr(LowerAlphabet, k) : k \in 1..Len(LowerAlphabet)} |->
        Chr(UpperAlphabet, CHOOSE k \in 1..Len(LowerAlphabet) : Chr(LowerAlphabet, k) = c)]

UpperChr(c) == IF c \in DOMAIN UpperOf THEN UpperOf[c] ELSE c

RECURSIVE Upper(_)
\* s.upper()
Upper(s) == IF s = "" THEN "" ELSE UpperChr(Chr(s, 1)) \o Upper(SubSeq(s, 2, Len(s)))

RECURSIVE Replace(_, _, _)
\* s.replace(old, new), old not empty: leftmost occurrences, not overlapping
Replace(s, old, new) ==
    IF Len(s) < Len(old) THEN s
    ELSE IF SubSeq(s, 1, Len(old)) = old
         THEN new \o Replace(SubSeq(s, Len(old) + 1, Len(s)), old, new)
         ELSE Chr(s, 1) \o Replace(SubSeq(s, 2, Len(s)), old, new)

\* The characters str.strip() removes, among those a string here can hold.
Whitespace == {" ", "\t", "\n", "\r", "\f"}

RECURSIVE LStrip(_)
LStrip(s) ==
    IF s # "" /\ Chr(s, 1) \in Whitespace THEN LStrip(SubSeq(s, 2, Len(s))) ELSE s

RECURSIVE RStrip(_)
RStrip(s) ==
    IF s # "" /\ Chr(s, Len(s)) \in Whitespace THEN RStrip(SubSeq(s, 1, Len(s) - 1)) ELSE s

\* s.strip()
Strip(s) == RStrip(LStrip(s))

RECURSIVE Split(_, _)
\* s.split(sep), sep one character: the sequence of the pieces
Split(s, sep) ==
    IF ~Contains(sep, s) THEN <<s>>
    ELSE LET k == CHOOSE k \in 1..Len(s) :
                      Chr(s, k) = sep /\ \A j \in 1..(k - 1) : Chr(s, j) # sep
         IN <<SubSeq(s, 1, k - 1)>> \o Split(SubSeq(s, k + 1, Len(s)), sep)

Digits == "0123456789"

IsDigit(c) == \E k \in 1..Len(Digits) : Chr(Digits, k) = c

DigitVal(c) == (CHOOSE k \in 1..Len(Digits) : Chr(Digits, k) = c) - 1

AllDigits(s) == \A k \in 1..Len(s) : IsDigit(Chr(s, k))

RECURSIVE DigitsVal(_)
DigitsVal(s) ==
    IF s = "" THEN 0
    ELSE 10 * DigitsVal(SubSeq(s, 1, Len(s) - 1)) + DigitVal(Chr(s, Len(s)))

RECURSIVE NatStr(_)
\* str(n) for an int n >= 0
NatStr(n) ==
    IF n < 10 THEN Chr(Digits, n + 1)
    ELSE NatStr(n \div 10) \o Chr(Digits, (n % 10) + 1)

\* str(n) for an int
IntStr(n) == IF n < 0 THEN "-" \o NatStr(-n) ELSE NatStr(n)

Abs(n) == IF n < 0 THEN -n ELSE n

\* repr of a float of h hundredths: 20.0, 20.5, 20.01, -5.0
FloatStr(h) ==
    LET a == Abs(h)
        frac == a % 100
    IN (IF h < 0 THEN "-" ELSE "") \o NatStr(a \div 100) \o "." \o
       (IF frac % 10 = 0 THEN NatStr(frac \div 10)
        ELSE NatStr(frac \div 10) \o NatStr(frac % 10))

\* str(v)
PyStr(v) ==
    CASE v.t = "str" -> v.s
      [] v.t = "int" -> IntStr(v.n)
      [] v.t = "float" -> FloatStr(v.h)
      [] v.t = "bool" -> (IF v.b THEN "True" ELSE "False")
      [] v.t = "none" -> "None"

\* float(s) of stripped text: [ok |-> TRUE, h |-> hundredths], or
\* [ok |-> FALSE] where float() raises ValueError.
\* [sign] digits [. digits] | [sign] . digits, at most two fractional digits.
ParseFloat(s) ==
    LET signed == s # "" /\ Chr(s, 1) \in {"+", "-"}
        body == IF signed THEN SubSeq(s, 2, Len(s)) ELSE s
        neg == signed /\ Chr(s, 1) = "-"
        parts == Split(body, ".")
        ip == parts[1]
        fp == IF Len(parts) = 2 THEN parts[2] ELSE ""
        wellformed == /\ Len(parts) <= 2
                      /\ AllDigits(ip) /\ AllDigits(fp)
                      /\ Len(ip) + Len(fp) > 0
                      /\ Len(fp) <= 2
        mag == 100 * DigitsVal(ip) +
               (IF Len(fp) = 1 THEN 10 * DigitsVal(fp) ELSE DigitsVal(fp))
    IN IF wellformed THEN [ok |-> TRUE, h |-> IF neg THEN -mag ELSE mag]
       ELSE [ok |-> FALSE]

-----------------------------------------------------------------------------
(* classify_payin *)

\* The bracket of a payin of h hundredths, as the if/elif chain decides it.
PayinCategoryOf(h) ==
    IF h <= 2000 THEN "Payin Below 20%"
    ELSE IF 2100 <= h /\ h <= 3000 THEN "Payin 21% to 30%"
    ELSE IF 3100 <= h /\ h <= 5000 THEN "Payin 31% to 50%"
    ELSE "Payin Above 50%"

\* classify_payin without the removal of '%'.
classify_payin_keeping_percent(payin_str) ==
    LET payin_clean == Strip(Replace(PyStr(payin_str), " ", ""))
        parsed == ParseFloat(payin_clean)
    IN IF payin_clean = "" \/ Upper(payin_clean) = "N/A" THEN <<0, "Payin Below 20%">>
       ELSE IF parsed.ok THEN <<parsed.h, PayinCategoryOf(parsed.h)>>
       ELSE <<0, "Payin Below 20%">>

\* classify_payin(payin_str): <<payin_value, category>>, payin_value in hundredths.
classify_payin(payin_str) ==
    LET payin_clean == Strip(Replace(Replace(PyStr(payin_str), "%", ""), " ", ""))
        parsed == ParseFloat(payin_clean)
    IN IF payin_clean = "" \/ Upper(payin_clean) = "N/A" THEN <<0, "Payin Below 20%">>
       ELSE IF parsed.ok THEN <<parsed.h, PayinCategoryOf(parsed.h)>>
       ELSE <<0, "Payin Below 20%">>

-----------------------------------------------------------------------------
(* FORMULA_DATA *)

Rule(lob, segment, insurer, po, remarks) ==
    [LOB |-> lob, SEGMENT |-> segment, INSURER |-> insurer, PO |-> po, REMARKS |-> remarks]

FORMULA_DATA == <<
    Rule("TW", "1+5", "All Companies", "90% of Payin", "NIL"),
    Rule("TW", "TW SAOD + COMP", "All Companies", "90% of Payin", "NIL"),
    Rule("TW", "TW SAOD + COMP", "DIGIT", "-2%", "Payin Below 20%"),
    Rule("TW", "TW SAOD + COMP", "DIGIT", "-3%", "Payin 21% to 30%"),
    Rule("TW", "TW SAOD + COMP", "DIGIT", "-4%", "Payin 31% to 50%"),
    Rule("TW", "TW SAOD + COMP", "DIGIT", "-5%", "Payin Above 50%"),
    Rule("TW", "TW TP", "Bajaj, Digit, ICICI", "-3%", "Payin Above 20%"),
    Rule("TW", "TW TP", "Rest of Companies", "-2%", "Payin Below 20%"),
    Rule("TW", "TW TP", "Rest of Companies", "-3%", "Payin 21% to 30%"),
    Rule("TW", "TW TP", "Rest of Companies", "-4%", "Payin 31% to 50%"),
    Rule("TW", "TW TP", "Rest of Companies", "-5%", "Payin Above 50%"),
    Rule("PVT CAR", "PVT CAR COMP + SAOD", "All Companies", "90% of Payin", "All Fuel"),
    Rule("PVT CAR", "PVT CAR TP", "Bajaj, Digit, SBI", "-2%", "Payin Below 20%"),
    Rule("PVT CAR", "PVT CAR TP", "Bajaj, Digit, SBI", "-3%", "Payin Above 20%"),
    Rule("PVT CAR", "PVT CAR TP", "Rest of Companies", "90% of Payin", "Zuno - 21"),
    Rule("CV", "Upto 2.5 GVW", "Reliance, SBI", "-2%", "NIL"),
    Rule("CV", "All GVW & PCV 3W, GCV 3W", "Rest of Companies", "-2%", "Payin Below 20%"),
    Rule("CV", "All GVW & PCV 3W, GCV 3W", "Rest of Companies", "-3%", "Payin 21% to 30%"),
    Rule("CV", "All GVW & PCV 3W, GCV 3W", "Rest of Companies", "-4%", "Payin 31% to 50%"),
    Rule("CV", "All GVW & PCV 3W, GCV 3W", "Rest of Companies", "-5%", "Payin Above 50%"),
    Rule("BUS", "SCHOOL BUS", "TATA, Reliance, Digit, ICICI", "Less 2% of Payin", "NIL"),
    Rule("BUS", "SCHOOL BUS", "Rest of Companies", "88% of Payin", "NIL"),
    Rule("BUS", "STAFF BUS", "All Companies", "88% of Payin", "NIL"),
    Rule("TAXI", "TAXI", "All Companies", "-2%", "Payin Below 20%"),
    Rule("TAXI", "TAXI", "All Companies", "-3%", "Payin 21% to 30%"),
    Rule("TAXI", "TAXI", "All Companies", "-4%", "Payin 31% to 50%"),
    Rule("TAXI", "TAXI", "All Companies", "-5%", "Payin Above 50%"),
    Rule("MISD", "Misd, Tractor", "All Companies", "88% of Payin", "NIL") >>

-----------------------------------------------------------------------------
(* apply_formula_directly: the body of the loop, for one record *)

\* The chain with the TAXI test moved to the front.
LobOfTaxiFirst(segment_upper, remarks_upper) ==
    IF Contains("TAXI", segment_upper) THEN "TAXI"
    ELSE IF AnyIn({"TW", "2W", "TWO WHEELER", "TWO-WHEELER"}, segment_upper) THEN "TW"
    ELSE IF AnyIn({"PVT CAR", "PRIVATE CAR", "CAR", "PCI"}, segment_upper) THEN "PVT CAR"
    ELSE IF AnyIn({"CV", "COMMERCIAL", "LCV", "GVW", "TN", "UPTO", "ALL GVW", "PCV", "GCV"},
                  segment_upper) THEN "CV"
    ELSE IF Contains("BUS", segment_upper) THEN "BUS"
    ELSE IF AnyIn({"MISD", "TRACTOR", "MISC", "AMBULANCE", "POLICE VAN", "GARBAGE VAN"},
                  segment_upper) THEN "MISD"
    ELSE IF AnyIn({"TATA", "MARUTI", "GVW", "TN"}, remarks_upper) THEN "CV"
    ELSE "UNKNOWN"

\* The if/elif chain that sets lob.
LobOf(segment_upper, remarks_upper) ==
    IF AnyIn({"TW", "2W", "TWO WHEELER", "TWO-WHEELER"}, segment_upper) THEN "TW"
    ELSE IF AnyIn({"PVT CAR", "PRIVATE CAR", "CAR", "PCI"}, segment_upper) THEN "PVT CAR"
    ELSE IF AnyIn({"CV", "COMMERCIAL", "LCV", "GVW", "TN", "UPTO", "ALL GVW", "PCV", "GCV"},
                  segment_upper) THEN "CV"
    ELSE IF Contains("BUS", segment_upper) THEN "BUS"
    ELSE IF Contains("TAXI", segment_upper) THEN "TAXI"
    ELSE IF AnyIn({"MISD", "TRACTOR", "MISC", "AMBULANCE", "POLICE VAN", "GARBAGE VAN"},
                  segment_upper) THEN "MISD"
    ELSE IF AnyIn({"TATA", "MARUTI", "GVW", "TN"}, remarks_upper) THEN "CV"
    ELSE "UNKNOWN"

\* matched_segment
MatchedSegment(lob, segment_upper) ==
    IF lob = "BUS"
    THEN IF ~Contains("SCHOOL", segment_upper) /\ ~Contains("STAFF", segment_upper)
         THEN "STAFF BUS"
         ELSE IF Contains("SCHOOL", segment_upper) THEN "SCHOOL BUS"
         ELSE "STAFF BUS"
    ELSE segment_upper

\* company_normalized
CompanyNormalized(name) ==
    Strip(Replace(Replace(Upper(name), "GENERAL", ""), "INSURANCE", ""))

\* segment_match for one rule
SegmentMatch(rule, lob, segment, matched_segment) ==
    LET rule_segment == Upper(rule.SEGMENT)
    IN IF lob = "CV"
       THEN IF Contains("UPTO 2.5", rule_segment)
            THEN AnyIn({"UPTO 2.5", "2.5 TN", "2.5 GVW", "2.5TN", "2.5GVW", "UPTO2.5"}, segment)
            ELSE Contains("ALL GVW", rule_segment)
       ELSE IF lob = "BUS" THEN matched_segment = rule_segment
       ELSE IF lob = "PVT CAR"
       THEN IF Contains("COMP", rule_segment)
               /\ AnyIn({"COMP", "COMPREHENSIVE", "PACKAGE", "1ST PARTY", "1+1"}, segment)
            THEN TRUE
            ELSE Contains("TP", rule_segment) /\ Contains("TP", segment)
                 /\ ~Contains("COMP", segment)
       ELSE IF lob = "TW"
       THEN IF Contains("1+5", rule_segment) /\ AnyIn({"1+5", "NEW", "FRESH"}, segment)
            THEN TRUE
            ELSE IF Contains("SAOD + COMP", rule_segment)
                    /\ AnyIn({"SAOD", "COMP", "PACKAGE", "1ST PARTY", "1+1"}, segment)
            THEN TRUE
            ELSE Contains("TP", rule_segment) /\ Contains("TP", segment)
       ELSE TRUE

\* [ins.strip().upper() for ins in rule["INSURER"].split(',')]
Insurers(rule) ==
    LET pieces == Split(rule.INSURER, ",")
    IN [k \in 1..Len(pieces) |-> Upper(Strip(pieces[k]))]

InList(x, list) == \E k \in 1..Len(list) : list[k] = x

\* The explicit-list test: a listed insurer contains, or is contained by, the name.
ExplicitMatch(insurers, company_normalized) ==
    \E k \in 1..Len(insurers) :
        Contains(insurers[k], company_normalized) \/ Contains(company_normalized, insurers[k])

\* is_in_specific_list: the inner loop over FORMULA_DATA of a "Rest of Companies" rule
IsInSpecificList(rule, company_normalized) ==
    \E o \in 1..Len(formula_data) :
        LET other_rule == formula_data[o]
            other_insurers == Insurers(other_rule)
        IN /\ other_rule.LOB = rule.LOB
           /\ other_rule.SEGMENT = rule.SEGMENT
           /\ ~Contains("REST OF COMPANIES", other_rule.INSURER)
           /\ ~Contains("ALL COMPANIES", other_rule.INSURER)
           /\ \E k \in 1..Len(other_insurers) :
                  Contains(other_insurers[k], company_normalized)

\* company_match with "All Companies" read as "Rest of Companies".
CompanyMatchAllAsRest(rule, company_normalized) ==
    LET insurers == Insurers(rule)
    IN IF InList("ALL COMPANIES", insurers) \/ InList("REST OF COMPANIES", insurers)
       THEN ~IsInSpecificList(rule, company_normalized)
       ELSE ExplicitMatch(insurers, company_normalized)

\* company_match for one rule
CompanyMatch(rule, company_normalized) ==
    LET insurers == Insurers(rule)
    IN IF InList("ALL COMPANIES", insurers) THEN TRUE
       ELSE IF InList("REST OF COMPANIES", insurers)
       THEN ~IsInSpecificList(rule, company_normalized)
       ELSE ExplicitMatch(insurers, company_normalized)

PayinPhrases == {"Payin Below", "Payin 21%", "Payin 31%", "Payin Above"}

\* The branch with the payin test applied to every remarks text but NIL.
RemarksVerdictAlwaysPayin(rule, payin_category) ==
    LET remarks == rule.REMARKS
    IN IF remarks = "NIL" \/ Contains("NIL", Upper(remarks)) THEN "direct"
       ELSE IF payin_category.t # "str" THEN "raise"
       ELSE IF Contains(payin_category.s, remarks) THEN "payin"
       ELSE "skip"

\* The branch on rule["REMARKS"]: "direct", "payin" or "other" when the rule is
\* taken, "skip" when the scan goes on, "raise" when the test raises TypeError.
RemarksVerdict(rule, payin_category) ==
    LET remarks == rule.REMARKS
    IN IF remarks = "NIL" \/ Contains("NIL", Upper(remarks)) THEN "direct"
       ELSE IF AnyIn(PayinPhrases, remarks)
       THEN IF payin_category.t # "str" THEN "raise"
            ELSE IF Contains(payin_category.s, remarks) THEN "payin"
            ELSE "skip"
       ELSE "other"

\* What the loop over FORMULA_DATA does with one rule.
RuleVerdict(rule, lob, segment, matched_segment, company_normalized, payin_category) ==
    IF rule.LOB # lob THEN "skip"
    ELSE IF ~SegmentMatch(rule, lob, segment, matched_segment) THEN "skip"
    ELSE IF ~CompanyMatch(rule, company_normalized) THEN "skip"
    ELSE RemarksVerdict(rule, payin_category)

\* The scan without its break: the last rule taken wins.
ScanWithoutBreak(k, lob, segment, matched_segment, company_normalized, payin_category) ==
    LET taken == {m \in k..Len(formula_data) :
                     RuleVerdict(formula_data[m], lob, segment, matched_segment,
                                 company_normalized, payin_category) # "skip"}
        last == CHOOSE m \in taken : \A n \in taken : n <= m
    IN IF taken = {} THEN [kind |-> "none", index |-> 0]
       ELSE [kind |-> RuleVerdict(formula_data[last], lob, segment, matched_segment,
                                  company_normalized, payin_category),
             index |-> last]

RECURSIVE ScanFrom(_, _, _, _, _, _)
\* for rule in FORMULA_DATA, from index k on: the first rule taken (break), none,
\* or the exception raised on the way.
ScanFrom(k, lob, segment, matched_segment, company_normalized, payin_category) ==
    IF k > Len(formula_data) THEN [kind |-> "none", index |-> 0]
    ELSE LET v == RuleVerdict(formula_data[k], lob, segment, matched_segment,
                              company_normalized, payin_category)
         IN IF v = "skip"
            THEN ScanFrom(k + 1, lob, segment, matched_segment, company_normalized,
                          payin_category)
            ELSE IF v = "raise" THEN [kind |-> "raise", index |-> k]
            ELSE [kind |-> v, index |-> k]

\* type(v).__name__
TypeName(v) == IF v.t = "none" THEN "NoneType" ELSE v.t

IsNumber(v) == v.t \in {"float", "int", "bool"}

\* A number in ten-thousandths.
TenThousandths(v) ==
    CASE v.t = "float" -> v.h * 100
      [] v.t = "int" -> v.n * 10000
      [] v.t = "bool" -> (IF v.b THEN 10000 ELSE 0)

Max(a, b) == IF b > a THEN b ELSE a

\* The chain with '-k%' read as k percent of the payin.
ApplyPOShare(po_formula, tt) ==
    IF Contains("90% of Payin", po_formula) THEN (tt * 90) \div 100
    ELSE IF Contains("88% of Payin", po_formula) THEN (tt * 88) \div 100
    ELSE IF Contains("Less 2% of Payin", po_formula) THEN (tt * 98) \div 100
    ELSE IF Contains("-2%", po_formula) THEN (tt * 98) \div 100
    ELSE IF Contains("-3%", po_formula) THEN (tt * 97) \div 100
    ELSE IF Contains("-4%", po_formula) THEN (tt * 96) \div 100
    ELSE IF Contains("-5%", po_formula) THEN (tt * 95) \div 100
    ELSE tt

\* The if/elif chain on po_formula, applied to a payin of tt ten-thousandths.
ApplyPO(po_formula, tt) ==
    IF Contains("90% of Payin", po_formula) THEN (tt * 90) \div 100
    ELSE IF Contains("88% of Payin", po_formula) THEN (tt * 88) \div 100
    ELSE IF Contains("Less 2% of Payin", po_formula) THEN tt - 20000
    ELSE IF Contains("-2%", po_formula) THEN tt - 20000
    ELSE IF Contains("-3%", po_formula) THEN tt - 30000
    ELSE IF Contains("-4%", po_formula) THEN tt - 40000
    ELSE IF Contains("-5%", po_formula) THEN tt - 50000
    ELSE tt

\* Whether the chain multiplies (by a float) or subtracts (an int).
Multiplies(po_formula) ==
    Contains("90% of Payin", po_formula) \/ Contains("88% of Payin", po_formula)

\* The matched payout without the clamp at zero.
MatchedPayoutUnclamped(po_formula, tt) == ApplyPO(po_formula, tt)

\* calculated_payout when a rule matched: max(0, formula applied to payin_value).
MatchedPayout(po_formula, tt) == Max(0, ApplyPO(po_formula, tt))

\* The payout of a record without a rule, clamped at zero.
UnmatchedPayoutClamped(tt) == Max(0, tt)

\* calculated_payout when no rule matched.
UnmatchedPayout(tt) == tt

\* The TypeError of the arithmetic on a payin_value that is no number.
ArithmeticError(po_formula, payin_value) ==
    IF Multiplies(po_formula)
    THEN IF payin_value.t = "str" THEN "can't multiply sequence by non-int of type 'float'"
         ELSE "unsupported operand type(s) for *=: '" \o TypeName(payin_value)
              \o "' and 'float'"
    ELSE "unsupported operand type(s) for -=: '" \o TypeName(payin_value) \o "' and 'int'"

\* The error of f"{payin_value:.2f}" on a payin_value that is no number.
FormatError(payin_value) ==
    IF payin_value.t = "str" THEN "Unknown format code 'f' for object of type 'str'"
    ELSE "unsupported format string passed to " \o TypeName(payin_value) \o ".__format__"

\* f"{x:.2f}%" for x of tt ten-thousandths (round half to even).
FormatPercent(tt) ==
    LET a == Abs(tt)
        q == a \div 100
        r == a % 100
        c == IF r > 50 \/ (r = 50 /\ q % 2 = 1) THEN q + 1 ELSE q
        f == c % 100
    IN (IF tt < 0 THEN "-" ELSE "") \o NatStr(c \div 100) \o "." \o
       NatStr(f \div 10) \o NatStr(f % 10) \o "%"

\* rule_explanation of the rule taken
Explanation(kind, rule, lob, payin_category) ==
    LET rule_segment == Upper(rule.SEGMENT)
    IN IF kind = "direct"
       THEN "Direct match: LOB=" \o lob \o ", Segment=" \o rule_segment
            \o ", Company=" \o rule.INSURER
       ELSE IF kind = "payin"
       THEN "Payin category match: LOB=" \o lob \o ", Segment=" \o rule_segment
            \o ", Payin=" \o payin_category.s
       ELSE "Other remarks match: LOB=" \o lob \o ", Segment=" \o rule_segment
            \o ", Remarks=" \o rule.REMARKS

\* The result record with the formula stored as the record's Payin_Category too.
ResultRecordOverCategory(d, payout, formula, explanation) ==
    DictV(Put(Put(Put(Put(d, "Calculated Payout", StrV(payout)),
                      "Formula Used", StrV(formula)),
                  "Rule Explanation", StrV(explanation)),
              "Payin_Category", StrV(formula)))

\* record.copy() with the three result keys set
ResultRecord(d, payout, formula, explanation) ==
    DictV(Put(Put(Put(d, "Calculated Payout", StrV(payout)),
                  "Formula Used", StrV(formula)),
              "Rule Explanation", StrV(explanation)))

Raise(msg) ==
    [ok |-> FALSE, error |-> msg, lob |-> "", matched_segment |-> "", matched_rule |-> 0,
     payout |-> 0, result |-> NoneV]

\* The try block of the loop for one record: the locals it sets and the
\* result_record it appends, or the exception it raises.
TryRecord(record, name) ==
    IF ~IsDict(record)
    THEN Raise("'" \o TypeName(record) \o "' object has no attribute 'get'")
    ELSE
    LET d == record.d
        segment == Upper(PyStr(Get(d, "Segment", StrV(""))))
        payin_value == Get(d, "Payin_Value", IntV(0))
        payin_category == Get(d, "Payin_Category", StrV(""))
        remarks_upper == Upper(PyStr(Get(d, "Remarks", StrV(""))))
        lob == LobOf(segment, remarks_upper)
        matched_segment == MatchedSegment(lob, segment)
        company_normalized == CompanyNormalized(name)
        scan == ScanFrom(1, lob, segment, matched_segment, company_normalized,
                         payin_category)
    IN IF scan.kind = "raise"
       THEN Raise("'in <string>' requires string as left operand, not "
                  \o TypeName(payin_category))
       ELSE IF scan.kind = "none"
       THEN IF ~IsNumber(payin_value) THEN Raise(FormatError(payin_value))
            ELSE LET payout == UnmatchedPayout(TenThousandths(payin_value))
                 IN [ok |-> TRUE, error |-> "", lob |-> lob,
                     matched_segment |-> matched_segment, matched_rule |-> 0,
                     payout |-> payout,
                     result |-> ResultRecord(d, FormatPercent(payout),
                                             "No matching rule found", "")]
       ELSE LET rule == formula_data[scan.index]
            IN IF ~IsNumber(payin_value)
               THEN Raise(ArithmeticError(rule.PO, payin_value))
               ELSE LET payout == MatchedPayout(rule.PO, TenThousandths(payin_value))
                    IN [ok |-> TRUE, error |-> "", lob |-> lob,
                        matched_segment |-> matched_segment,
                        matched_rule |-> scan.index, payout |-> payout,
                        result |-> ResultRecord(d, FormatPercent(payout), rule.PO,
                                                Explanation(scan.kind, rule, lob,
                                                            payin_category))]

\* The except block: the Error record appended, or, for a record without
\* copy() or item assignment, the exception that leaves the function.
ExceptRecord(record, msg) ==
    IF IsDict(record)
    THEN [ok |-> TRUE, error |-> "",
          result |-> ResultRecord(record.d, "Error", "Error in calculation",
                                  "Error: " \o msg)]
    ELSE [ok |-> FALSE,
          error |-> "'" \o TypeName(record) \o "' object has no attribute 'copy'",
          result |-> NoneV]

-----------------------------------------------------------------------------
(* The inputs *)

\* The longest batch of several records.
MaxBatch == 2

Segments ==
    {"TW TP", "TW SAOD", "TW Comp TP", "TW New 1+5", "1+5", "SC",
     "CV upto 2.5 Tn", "LCV 2.5 GVW", "GCV 3W", "BUS", "School Bus", "Staff Bus",
     "PVT CAR TP", "Pvt Car Comp", "PVT CAR PACKAGE TP", "TAXI", "Tractor", "XYZ",
     "Taxi Car", "PCV Taxi"}

RemarksTexts == {"", "Tata Ace"}

Payins ==
    {StrV("55%"), StrV("15%"), StrV("40%"), StrV("35%"), StrV("3%"), StrV("60"), StrV("20"),
     StrV("20.01"), StrV("20.5%"), StrV("21"), StrV("25 %"), StrV("30"), StrV("30.01"),
     StrV("30.5"), StrV("31"), StrV("50%"), StrV("50.01%"), StrV("-5%"), StrV("N/A"),
     StrV(""), StrV("abc"), NoneV, IntV(35), FloatV(2050), StrV("35\f")}

Companies ==
    {"Bajaj", "Baj", "Acme", "Reliance", "Digit", "General Insurance",
     "SBI General Insurance", "ICICI Lombard General Insurance", "Tata AIG"}

\* A parsed record, as the extraction step hands it to process_files.
RawRecord(segment, payin, remarks) ==
    DictV([Segment |-> StrV(segment), Payin |-> payin, Remarks |-> StrV(remarks)])

RawRecords ==
    {RawRecord(s, p, r) : s \in Segments, p \in Payins, r \in RemarksTexts}

\* The records of the batches of several records given to process_files: three
\* records of the scenarios, one with a Discount key, one without a Payin key,
\* one that carries Payin_Value and Payin_Category keys of its own, and an
\* element that is no mapping.
CoreRecords ==
    {RawRecord("TW TP", StrV("55%"), ""),
     RawRecord("BUS", StrV("40%"), ""),
     RawRecord("XYZ", StrV("-5%"), ""),
     DictV([Segment |-> StrV("CV upto 2.5 Tn"), Payin |-> StrV("15%"),
            Discount |-> StrV("5%")]),
     DictV([Segment |-> StrV("Staff Bus")]),
     DictV([Segment |-> StrV("TAXI"), Payin |-> StrV("15%"), Payin_Value |-> FloatV(9900),
            Payin_Category |-> StrV("Payin 21% to 30%")]),
     StrV("oops")}

\* A normalised record, as a caller hands it to apply_formula_directly.
NormRecord(segment, payin_value, payin_category) ==
    DictV([Segment |-> StrV(segment), Payin_Value |-> payin_value,
           Payin_Category |-> payin_category])

\* The records given one by one to apply_formula_directly itself: records
\* with a numeric, a textual, a missing Payin_Value, a missing or empty
\* Payin_Category, a Payin_Category that is no text or not the bracket of the
\* Payin_Value, and elements that are no mapping.
DirectRecords ==
    {NormRecord("BUS", FloatV(4000), StrV("Payin 31% to 50%")),
     NormRecord("TAXI", FloatV(300), StrV("Payin Above 50%")),
     NormRecord("TAXI", FloatV(5500), StrV("")),
     NormRecord("XYZ", FloatV(-500), StrV("Payin Below 20%")),
     NormRecord("BUS", StrV("abc"), StrV("Payin Below 20%")),
     NormRecord("XYZ", NoneV, StrV("Payin Below 20%")),
     NormRecord("TAXI", FloatV(300), NoneV),
     DictV([Segment |-> StrV("TW TP"), Payin_Value |-> FloatV(5500)]),
     DictV([Segment |-> StrV("Tractor")]),
     StrV("oops"),
     NoneV}

\* The records of the batches of several records given to apply_formula_directly
\* itself: two that match a rule, one that faults, one whose Payin_Category is
\* empty, and an element that is no mapping.
DirectCore ==
    {NormRecord("BUS", FloatV(4000), StrV("Payin 31% to 50%")),
     NormRecord("TAXI", FloatV(300), StrV("Payin Above 50%")),
     NormRecord("TAXI", FloatV(5500), StrV("")),
     NormRecord("BUS", StrV("abc"), StrV("Payin Below 20%")),
     NoneV}

RECURSIVE SeqsOf(_, _)
\* The sequences of exactly n elements of S.
SeqsOf(S, n) ==
    IF n = 0 THEN {<<>>}
    ELSE {Append(q, x) : q \in SeqsOf(S, n - 1), x \in S}

\* Batches for the summary of process_files: Segments that are equal numbers
\* of different types, and payins whose average lies between two tenths.
MetricBatches ==
    {<<DictV([Segment |-> IntV(1), Payin |-> StrV("0.3")]),
       DictV([Segment |-> BoolV(TRUE), Payin |-> StrV("0.4")])>>,
     <<DictV([Segment |-> FloatV(200), Payin |-> StrV("5")]),
       DictV([Segment |-> StrV("2"), Payin |-> StrV("5.7")]),
       DictV([Segment |-> IntV(2), Payin |-> StrV("-0.5")])>>}

\* The batches: any one record, or up to MaxBatch of the core records.
Batches(e) ==
    IF e = "process_files"
    THEN {<<r>> : r \in RawRecords} \cup UNION {SeqsOf(CoreRecords, n) : n \in 0..MaxBatch}
         \cup MetricBatches
    ELSE {<<r>> : r \in DirectRecords} \cup UNION {SeqsOf(DirectCore, n) : n \in 0..MaxBatch}

NoMetrics == [total_records |-> 0, avg_payin |-> 0, unique_segments |-> 0,
              company_name |-> "", formula_summary |-> <<>>]

Init ==
    /\ entry \in {"process_files", "apply_formula_directly"}
    /\ policy_data \in Batches(entry)
    /\ company_name \in Companies
    /\ pc = "start"
    /\ i = 1
    /\ calculated_data = <<>>
    /\ locals = <<>>
    /\ metrics = NoMetrics
    /\ raised = ""
    /\ formula_data = FORMULA_DATA
    /\ first_run = <<>>
    /\ status = 0

-----------------------------------------------------------------------------
(* process_files, from the parsed batch on *)

\* A response that answers every exception of process_files as a success.
StatusWithoutError(type) == 200

\* process_policy's except clauses: ValueError gives 400, any other exception 500.
StatusOf(type) == IF type = "ValueError" THEN 400 ELSE 500

\* The check of the parsed batch: an empty batch raises ValueError, and
\* process_policy answers it.
ParseCheck ==
    /\ entry = "process_files" /\ pc = "start"
    /\ IF Len(policy_data) = 0
       THEN /\ pc' = "raised" /\ raised' = "AI parsing failed: Parsed data is empty"
            /\ status' = StatusOf("ValueError")
       ELSE pc' = "classify" /\ UNCHANGED <<raised, status>>
    /\ UNCHANGED <<entry, policy_data, company_name, i, calculated_data, locals, metrics,
                   formula_data, first_run>>

\* The iteration with setdefault: keys the record carries are kept.
ClassifiedRecordKeeping(record) ==
    LET d == IF "Discount" \in DOMAIN record.d THEN Del(record.d, "Discount") ELSE record.d
        c == classify_payin(Get(d, "Payin", StrV("0%")))
    IN DictV(Put(Put(d, "Payin_Value", Get(d, "Payin_Value", FloatV(c[1]))),
                 "Payin_Category", Get(d, "Payin_Category", StrV(c[2]))))

\* One iteration of the "Classify payin" loop, on the record itself.
ClassifiedRecord(record) ==
    LET d == IF "Discount" \in DOMAIN record.d THEN Del(record.d, "Discount") ELSE record.d
        c == classify_payin(Get(d, "Payin", StrV("0%")))
    IN DictV(Put(Put(d, "Payin_Value", FloatV(c[1])), "Payin_Category", StrV(c[2])))

\* The exception of the loop's except block on an element that takes no item
\* assignment.
ClassifyError(record) ==
    "'" \o TypeName(record) \o "' object does not support item assignment"

ClassifyRecord ==
    /\ pc = "classify" /\ i <= Len(policy_data)
    /\ IF IsDict(policy_data[i])
       THEN /\ policy_data' = [policy_data EXCEPT ![i] = ClassifiedRecord(policy_data[i])]
            /\ i' = i + 1
            /\ UNCHANGED <<pc, raised, status>>
       ELSE /\ pc' = "raised"
            /\ raised' = ClassifyError(policy_data[i])
            /\ status' = StatusOf("TypeError")
            /\ UNCHANGED <<policy_data, i>>
    /\ UNCHANGED <<entry, company_name, calculated_data, locals, metrics, formula_data,
                   first_run>>

-----------------------------------------------------------------------------
(* apply_formula_directly *)

\* The call: an empty batch returns [] at once.
ApplyEnter ==
    /\ \/ entry = "apply_formula_directly" /\ pc = "start"
       \/ entry = "process_files" /\ pc = "classify" /\ i > Len(policy_data)
    /\ IF Len(policy_data) = 0
       THEN pc' = "returned"
       ELSE pc' = "apply"
    /\ i' = 1
    /\ calculated_data' = <<>>
    /\ UNCHANGED <<entry, policy_data, company_name, locals, metrics, raised, formula_data,
                   first_run, status>>

\* The batch after an iteration that set the result keys on the record itself.
InputAliased(batch, k, result_record) == [batch EXCEPT ![k] = result_record]

\* The batch after iteration k: result_record is record.copy(), a new dict, and
\* the three result keys are set on the copy.
InputAfter(batch, k, result_record) == batch

\* One iteration of "for record in policy_data": the try block, and the except
\* block when it raised.
ApplyRecord ==
    /\ pc = "apply" /\ i <= Len(policy_data)
    /\ LET record == policy_data[i]
           try == TryRecord(record, company_name)
           exc == ExceptRecord(record, try.error)
       IN IF try.ok
          THEN /\ calculated_data' = Append(calculated_data, try.result)
               /\ policy_data' = InputAfter(policy_data, i, try.result)
               /\ locals' = Append(locals, [try EXCEPT !.result = NoneV])
               /\ i' = i + 1
               /\ UNCHANGED <<pc, raised, status>>
          ELSE IF exc.ok
          THEN /\ calculated_data' = Append(calculated_data, exc.result)
               /\ policy_data' = InputAfter(policy_data, i, exc.result)
               /\ locals' = Append(locals, try)
               /\ i' = i + 1
               /\ UNCHANGED <<pc, raised, status>>
          ELSE /\ pc' = "raised"
               /\ raised' = exc.error
               /\ status' = IF entry = "process_files" THEN StatusOf("AttributeError")
                             ELSE status
               /\ UNCHANGED <<policy_data, calculated_data, locals, i>>
    /\ UNCHANGED <<entry, company_name, metrics, formula_data, first_run>>

\* return calculated_data
ApplyReturn ==
    /\ pc = "apply" /\ i > Len(policy_data)
    /\ pc' = IF entry = "process_files" THEN "summary" ELSE "returned"
    /\ UNCHANGED <<entry, policy_data, company_name, i, calculated_data, locals, metrics,
                   raised, formula_data, first_run, status>>

\* A caller of apply_formula_directly calls it again, with the same company
\* name, on the list the call returned.
Rerun ==
    /\ entry = "apply_formula_directly" /\ pc = "returned"
    /\ first_run = <<>> /\ Len(calculated_data) > 0
    /\ first_run' = calculated_data
    /\ policy_data' = calculated_data
    /\ pc' = "start"
    /\ i' = 1
    /\ calculated_data' = <<>>
    /\ locals' = <<>>
    /\ UNCHANGED <<entry, company_name, metrics, raised, formula_data, status>>

-----------------------------------------------------------------------------
(* The binary double of a float: sign, magnitude x * 2^e *)

\* A natural number of any size is the sequence of its digits in base Limb,
\* the least significant first, without leading zero digits: 0 is <<>>.
Limb == 32768

LimbBits == 15

RECURSIVE Trim(_)
Trim(a) == IF a # <<>> /\ a[Len(a)] = 0 THEN Trim(SubSeq(a, 1, Len(a) - 1)) ELSE a

RECURSIVE Big(_)
\* the digits of an int n >= 0
Big(n) == IF n = 0 THEN <<>> ELSE <<n % Limb>> \o Big(n \div Limb)

RECURSIVE Small(_)
\* the int of digits a
Small(a) == IF a = <<>> THEN 0 ELSE a[1] + Limb * Small(Tail(a))

RECURSIVE BigCmpFrom(_, _, _)
BigCmpFrom(a, b, k) ==
    IF k = 0 THEN 0
    ELSE IF a[k] # b[k] THEN (IF a[k] < b[k] THEN -1 ELSE 1)
    ELSE BigCmpFrom(a, b, k - 1)

\* -1, 0, 1 as a < b, a = b, a > b
BigCmp(a, b) ==
    IF Len(a) # Len(b) THEN (IF Len(a) < Len(b) THEN -1 ELSE 1)
    ELSE BigCmpFrom(a, b, Len(a))

RECURSIVE BigAddC(_, _, _)
BigAddC(a, b, carry) ==
    IF a = <<>> /\ b = <<>> THEN Big(carry)
    ELSE LET x == (IF a = <<>> THEN 0 ELSE a[1]) + (IF b = <<>> THEN 0 ELSE b[1]) + carry
         IN <<x % Limb>> \o BigAddC(IF a = <<>> THEN <<>> ELSE Tail(a),
                                    IF b = <<>> THEN <<>> ELSE Tail(b), x \div Limb)

BigAdd(a, b) == BigAddC(a, b, 0)

RECURSIVE BigSubB(_, _, _)
BigSubB(a, b, borrow) ==
    IF a = <<>> THEN <<>>
    ELSE LET x == a[1] - (IF b = <<>> THEN 0 ELSE b[1]) - borrow
         IN <<IF x < 0 THEN x + Limb ELSE x>>
            \o BigSubB(Tail(a), IF b = <<>> THEN <<>> ELSE Tail(b), IF x < 0 THEN 1 ELSE 0)

\* a - b, for a >= b
BigSub(a, b) == Trim(BigSubB(a, b, 0))

RECURSIVE BigMulC(_, _, _)
BigMulC(a, m, carry) ==
    IF a = <<>> THEN Big(carry)
    ELSE LET x == a[1] * m + carry
         IN <<x % Limb>> \o BigMulC(Tail(a), m, x \div Limb)

\* a * m, for 0 <= m <= Limb
BigMul(a, m) == Trim(BigMulC(a, m, 0))

RECURSIVE BigDivMod(_, _)
\* quotient digits (leading zeros kept) and remainder of a by d, 0 < d <= Limb
BigDivMod(a, d) ==
    IF a = <<>> THEN [q |-> <<>>, r |-> 0]
    ELSE LET hi == BigDivMod(Tail(a), d)
             cur == hi.r * Limb + a[1]
         IN [q |-> <<cur \div d>> \o hi.q, r |-> cur % d]

\* a * 2^s
BigShl(a, s) ==
    IF a = <<>> THEN <<>>
    ELSE [k \in 1..(s \div LimbBits) |-> 0] \o BigMul(a, 2 ^ (s % LimbBits))

\* a \div 2^s
BigShr(a, s) ==
    Trim(BigDivMod(SubSeq(a, (s \div LimbBits) + 1, Len(a)), 2 ^ (s % LimbBits)).q)

RECURSIVE Bits(_)
Bits(n) == IF n = 0 THEN 0 ELSE 1 + Bits(n \div 2)

\* the number of binary digits of a
BigBits(a) == IF a = <<>> THEN 0 ELSE LimbBits * (Len(a) - 1) + Bits(a[Len(a)])

\* a \div 2^s rounded to the nearest integer, ties to the even one
BigShrNearest(a, s) ==
    LET q == BigShr(a, s)
        c == BigCmp(BigSub(a, BigShl(q, s)), BigShl(<<1>>, s - 1))
    IN IF c > 0 \/ (c = 0 /\ q # <<>> /\ q[1] % 2 = 1) THEN BigAdd(q, <<1>>) ELSE q

\* The significand of a double has 53 binary digits.
Significand == 53

\* The double nearest to x * 2^e (round to nearest, ties to even).
Nearest(neg, x, e) ==
    LET s == BigBits(x) - Significand
    IN IF s <= 0 THEN [neg |-> neg, x |-> x, e |-> e]
       ELSE [neg |-> neg, x |-> BigShrNearest(x, s), e |-> e + s]

\* The double nearest to x * 2^e / d, for 0 < d <= Limb: the quotient to 75
\* binary places, and one more place that says whether a remainder is left.
FDiv(neg, x, e, d) ==
    LET dm == BigDivMod(BigShl(x, 75), d)
    IN Nearest(neg, BigAdd(BigMul(Trim(dm.q), 2), IF dm.r = 0 THEN <<>> ELSE <<1>>), e - 76)

\* The double of a number: float(text) is the double nearest to the decimal.
DoubleOf(v) ==
    CASE v.t = "float" -> FDiv(v.h < 0, Big(Abs(v.h)), 0, 100)
      [] v.t = "int" -> [neg |-> v.n < 0, x |-> Big(Abs(v.n)), e |-> 0]
      [] v.t = "bool" -> [neg |-> FALSE, x |-> Big(IF v.b THEN 1 ELSE 0), e |-> 0]

\* a + b
FAdd(a, b) ==
    LET e == IF a.e < b.e THEN a.e ELSE b.e
        xa == BigShl(a.x, a.e - e)
        xb == BigShl(b.x, b.e - e)
        c == BigCmp(xa, xb)
    IN IF a.neg = b.neg THEN Nearest(a.neg, BigAdd(xa, xb), e)
       ELSE IF c = 0 THEN [neg |-> FALSE, x |-> <<>>, e |-> 0]
       ELSE IF c > 0 THEN Nearest(a.neg, BigSub(xa, xb), e)
       ELSE Nearest(b.neg, BigSub(xb, xa), e)

\* round(a, 1), in tenths: the tenth nearest to the double, ties to even.
RoundTenths(a) ==
    LET n == BigMul(a.x, 10)
        mag == IF a.e >= 0 THEN Small(BigShl(n, a.e)) ELSE Small(BigShrNearest(n, -a.e))
    IN IF a.neg THEN -mag ELSE mag

-----------------------------------------------------------------------------
(* process_files, after apply_formula_directly returned *)

\* The characters a worksheet cell refuses (openpyxl's ILLEGAL_CHARACTERS_RE),
\* among those a string here can hold.
IllegalCharacters == {"\f"}

HasIllegal(s) == \E k \in 1..Len(s) : Chr(s, k) \in IllegalCharacters

\* list(df_calc.columns): the keys of the records, as a set
Columns(data) == UNION {DOMAIN data[k].d : k \in 1..Len(data)}

\* The rows whose cell of column c is a text the cell refuses.
RefusedRows(data, c) ==
    {k \in 1..Len(data) :
        /\ c \in DOMAIN data[k].d
        /\ data[k].d[c].t = "str"
        /\ HasIllegal(data[k].d[c].s)}

\* str(e) of the exception of a cell given text
IllegalCharacterError(text) == text \o " cannot be used in worksheets."

\* The exceptions the writing of the worksheet can end with: to_excel writes
\* the header cells, then the cells column by column from the top, and the
\* company name is written after it.  The order of the columns is the order of
\* the records' keys, which a record here does not hold: the first column with
\* a refused cell is any of those that have one.  {} when the file is written.
ExcelErrors(data, name) ==
    LET headers == {c \in Columns(data) : HasIllegal(c)}
        columns == {c \in Columns(data) : RefusedRows(data, c) # {}}
        first(c) == CHOOSE k \in RefusedRows(data, c) : \A j \in RefusedRows(data, c) : k <= j
    IN IF headers # {} THEN {IllegalCharacterError(c) : c \in headers}
       ELSE IF columns # {} THEN {IllegalCharacterError(data[first(c)].d[c].s) : c \in columns}
       ELSE IF HasIllegal(name) THEN {IllegalCharacterError(name)}
       ELSE {}

RECURSIVE SumPayin(_, _)
\* sum([r.get('Payin_Value', 0) for r in data]) up to index k: from the int 0,
\* each value added in turn
SumPayin(data, k) ==
    IF k = 0 THEN DoubleOf(IntV(0))
    ELSE FAdd(SumPayin(data, k - 1), DoubleOf(Get(data[k].d, "Payin_Value", IntV(0))))

\* round(sum / len, 1), in hundredths
AvgPayin(data) ==
    LET total == SumPayin(data, Len(data))
    IN 10 * RoundTenths(FDiv(total.neg, total.x, total.e, Len(data)))

\* The value as set() tells values apart: numbers are equal by their value,
\* whatever their type (1 == 1.0 == True).
SetKey(v) == IF IsNumber(v) THEN [t |-> "number", tt |-> TenThousandths(v)] ELSE v

\* The metrics of the result: avg_payin in hundredths (rounded to a tenth),
\* unique_segments over the records' own Segment values, formula_summary the
\* count of records per 'Formula Used'.
Metrics(data, name) ==
    LET n == Len(data)
        formulas == {Get(data[k].d, "Formula Used", StrV("Unknown")) : k \in 1..n}
    IN [total_records |-> n,
        avg_payin |-> AvgPayin(data),
        unique_segments |->
            Cardinality({SetKey(Get(data[k].d, "Segment", StrV("N/A"))) : k \in 1..n}),
        company_name |-> name,
        formula_summary |->
            [f \in formulas |->
                Cardinality({k \in 1..n : Get(data[k].d, "Formula Used", StrV("Unknown")) = f})]]

\* The check of calculated_data, the worksheet written from it, the summary
\* returned with it and process_policy's response.
Summarise ==
    /\ pc = "summary"
    /\ IF Len(calculated_data) = 0
       THEN /\ pc' = "raised" /\ raised' = "No data after formula application"
            /\ status' = StatusOf("ValueError")
            /\ UNCHANGED metrics
       ELSE IF Columns(calculated_data) = {}
       THEN /\ pc' = "raised" /\ raised' = "DataFrame is empty"
            /\ status' = StatusOf("ValueError")
            /\ UNCHANGED metrics
       ELSE IF ExcelErrors(calculated_data, company_name) # {}
       THEN /\ pc' = "raised"
            /\ \E e \in ExcelErrors(calculated_data, company_name) :
                   raised' = "Error creating Excel: " \o e
            /\ status' = StatusOf("ValueError")
            /\ UNCHANGED metrics
       ELSE /\ pc' = "returned" /\ metrics' = Metrics(calculated_data, company_name)
            /\ status' = 200
            /\ UNCHANGED raised
    /\ UNCHANGED <<entry, policy_data, company_name, i, calculated_data, locals,
                   formula_data, first_run>>

-----------------------------------------------------------------------------

Next ==
    \/ ParseCheck
    \/ ClassifyRecord
    \/ ApplyEnter
    \/ ApplyRecord
    \/ ApplyReturn
    \/ Rerun
    \/ Summarise

Spec == Init /\ [][Next]_vars

-----------------------------------------------------------------------------
(* What the properties below read *)

\* The records apply_formula_directly has finished (result or Error record appended).
Processed == 1..Len(locals)

\* The finished records whose try block ran to its end.
Computed == {j \in Processed : locals[j].ok}

\* The records process_files' classification loop has finished.
Classified ==
    {j \in 1..Len(policy_data) :
        /\ entry = "process_files" /\ pc # "start"
        /\ pc \in {"classify", "raised"} => j < i}

SegmentUpperOf(j) == Upper(PyStr(Get(policy_data[j].d, "Segment", StrV(""))))

PayinCategoryIn(j) == Get(policy_data[j].d, "Payin_Category", StrV(""))

\* The record's Payin_Value in ten-thousandths (a computed record's is a number).
PayinOf(j) == TenThousandths(Get(policy_data[j].d, "Payin_Value", IntV(0)))

Output(j, key) == calculated_data[j].d[key].s

\* The four conditions of rule k for record j, each as the code tests it.
FourConditions(k, j) ==
    LET rule == FORMULA_DATA[k]
        lob == locals[j].lob
    IN /\ rule.LOB = lob
       /\ SegmentMatch(rule, lob, SegmentUpperOf(j), locals[j].matched_segment)
       /\ CompanyMatch(rule, CompanyNormalized(company_name))
       /\ RemarksVerdict(rule, PayinCategoryIn(j)) \in {"direct", "payin", "other"}

Satisfying(j) == {k \in 1..Len(FORMULA_DATA) : FourConditions(k, j)}

-----------------------------------------------------------------------------
(* C1 *)

\* C1: first-match priority. For every record computed without a fault, the rule
\* selected is the lowest-index entry of FORMULA_DATA that satisfies all four
\* conditions (LOB, segment match, insurer scope, remarks condition); no rule is
\* selected only when no entry satisfies all four.
C1_FirstMatch ==
    \A j \in Computed :
        LET S == Satisfying(j)
            m == locals[j].matched_rule
        IN IF S = {} THEN m = 0
           ELSE m \in S /\ \A k \in S : m <= k

\* A record for which a later entry satisfies all four conditions too.
C1_Witness ==
    \E j \in Computed :
        /\ locals[j].matched_rule > 0
        /\ \E k \in Satisfying(j) : k > locals[j].matched_rule

-----------------------------------------------------------------------------
(* C2 *)

\* The bracket of the specification: v <= 20, 20 < v <= 30, 30 < v <= 50, v > 50.
BracketOfSpec(h) ==
    IF h <= 2000 THEN "Payin Below 20%"
    ELSE IF h <= 3000 THEN "Payin 21% to 30%"
    ELSE IF h <= 5000 THEN "Payin 31% to 50%"
    ELSE "Payin Above 50%"

\* C2: payin bracket boundaries. Every classified record's Payin_Category is the
\* bracket of its Payin_Value with the boundaries 20, 30 and 50 inclusive above and
\* no gap between brackets: 20.01 is 'Payin 21% to 30%', 30.01 'Payin 31% to 50%'.
C2_BracketBoundaries ==
    \A j \in Classified :
        policy_data[j].d["Payin_Category"].s = BracketOfSpec(policy_data[j].d["Payin_Value"].h)

-----------------------------------------------------------------------------
(* C3 *)

\* The formula of record j: the matched rule's PO, or the identity.
FormulaApplied(j) ==
    IF locals[j].matched_rule = 0 THEN PayinOf(j)
    ELSE ApplyPO(FORMULA_DATA[locals[j].matched_rule].PO, PayinOf(j))

\* C3: the payout is never negative. For every record computed without a fault,
\* rule matched or not, the value formatted into 'Calculated Payout' is
\* max(0, formula applied to payin), hence >= 0.
C3_PayoutNonNegative ==
    \A j \in Computed :
        /\ locals[j].payout = Max(0, FormulaApplied(j))
        /\ locals[j].payout >= 0
        /\ Output(j, "Calculated Payout") = FormatPercent(Max(0, FormulaApplied(j)))

-----------------------------------------------------------------------------
(* C4 *)

ScopeKind(rule) ==
    IF InList("ALL COMPANIES", Insurers(rule)) THEN "all"
    ELSE IF InList("REST OF COMPANIES", Insurers(rule)) THEN "rest"
    ELSE "explicit"

\* The pairs <<explicit-list rule, Rest of Companies rule>> of one (LOB, SEGMENT) group.
SiblingPairs ==
    {<<e, r>> \in (1..Len(FORMULA_DATA)) \X (1..Len(FORMULA_DATA)) :
        /\ FORMULA_DATA[e].LOB = FORMULA_DATA[r].LOB
        /\ FORMULA_DATA[e].SEGMENT = FORMULA_DATA[r].SEGMENT
        /\ ScopeKind(FORMULA_DATA[e]) = "explicit"
        /\ ScopeKind(FORMULA_DATA[r]) = "rest"}

\* C4: RestOfCompanies exclusivity. For the company name of a batch being
\* evaluated and every (LOB, SEGMENT) group, the name never passes both the scope
\* check of an explicit-list rule and that of a Rest of Companies rule of the
\* group, and it passes at least one of the two.
C4_RestExclusive ==
    Len(locals) > 0 =>
        \A p \in SiblingPairs :
            LET cn == CompanyNormalized(company_name)
                inExplicit == CompanyMatch(FORMULA_DATA[p[1]], cn)
                inRest == CompanyMatch(FORMULA_DATA[p[2]], cn)
            IN ~(inExplicit /\ inRest) /\ (inExplicit \/ inRest)

-----------------------------------------------------------------------------
(* C5 *)

\* The TW TP entry scoped to Bajaj, Digit, ICICI.
TwTpListed ==
    CHOOSE k \in 1..Len(FORMULA_DATA) :
        FORMULA_DATA[k] = Rule("TW", "TW TP", "Bajaj, Digit, ICICI", "-3%", "Payin Above 20%")

\* C5: the TW TP scenario. A TW record whose segment is TW TP, for a company
\* matching Bajaj, Digit or ICICI and a payin above 20%, is given the TW TP rule
\* scoped to "Bajaj, Digit, ICICI" (-3%) and the payout payin - 3; segment
\* 'TW TP', payin '55%', company 'Bajaj' gives '52.00%'.
C5_TwTpScenario ==
    \A j \in Computed :
        /\ entry = "process_files"
        /\ locals[j].lob = "TW"
        /\ SegmentUpperOf(j) = "TW TP"
        /\ ExplicitMatch(Insurers(FORMULA_DATA[TwTpListed]), CompanyNormalized(company_name))
        /\ PayinOf(j) > 200000
        => /\ locals[j].matched_rule = TwTpListed
           /\ locals[j].payout = PayinOf(j) - 30000
           /\ (policy_data[j].d["Payin"] = StrV("55%") /\ company_name = "Bajaj"
                 => Output(j, "Calculated Payout") = "52.00%")

-----------------------------------------------------------------------------
(* C6 *)

\* The CV entry 'Upto 2.5 GVW' scoped to Reliance, SBI.
CvUpto ==
    CHOOSE k \in 1..Len(FORMULA_DATA) :
        FORMULA_DATA[k] = Rule("CV", "Upto 2.5 GVW", "Reliance, SBI", "-2%", "NIL")

\* C6: the CV scenario. A CV record whose segment contains an upto-2.5 tonnage
\* keyword, for a company matching Reliance or SBI, is given the 'Upto 2.5 GVW'
\* rule (-2%) and the payout max(0, payin - 2), whatever the payin; segment
\* 'CV upto 2.5 Tn', payin '15%', company 'Reliance' gives '13.00%'.
C6_CvScenario ==
    \A j \in Computed :
        /\ locals[j].lob = "CV"
        /\ AnyIn({"UPTO 2.5", "2.5 TN", "2.5 GVW"}, SegmentUpperOf(j))
        /\ ExplicitMatch(<<"RELIANCE", "SBI">>, CompanyNormalized(company_name))
        => /\ locals[j].matched_rule = CvUpto
           /\ locals[j].payout = Max(0, PayinOf(j) - 20000)
           /\ Output(j, "Formula Used") = "-2%"
           /\ Output(j, "Calculated Payout") = FormatPercent(Max(0, PayinOf(j) - 20000))
           /\ (/\ policy_data[j].d["Segment"] = StrV("CV upto 2.5 Tn")
               /\ Get(policy_data[j].d, "Payin", NoneV) = StrV("15%")
               /\ company_name = "Reliance"
               => Output(j, "Calculated Payout") = "13.00%")

\* The scenario's record, evaluated for Reliance.
C6_Witness ==
    \E j \in Computed :
        /\ entry = "process_files"
        /\ company_name = "Reliance"
        /\ policy_data[j].d["Segment"] = StrV("CV upto 2.5 Tn")
        /\ policy_data[j].d["Payin"] = StrV("15%")
        /\ Output(j, "Calculated Payout") = "13.00%"

-----------------------------------------------------------------------------
(* C7 *)

\* The STAFF BUS entry.
StaffBus ==
    CHOOSE k \in 1..Len(FORMULA_DATA) :
        FORMULA_DATA[k] = Rule("BUS", "STAFF BUS", "All Companies", "88% of Payin", "NIL")

\* C7: the BUS scenario. A record of LOB BUS whose segment contains neither
\* SCHOOL nor STAFF is given, for every company and payin, the STAFF BUS rule and
\* the payout 0.88 x payin; segment 'BUS', payin '40%', company 'Acme' gives
\* '35.20%'.
C7_BusScenario ==
    \A j \in Computed :
        /\ locals[j].lob = "BUS"
        /\ ~Contains("SCHOOL", SegmentUpperOf(j))
        /\ ~Contains("STAFF", SegmentUpperOf(j))
        => /\ locals[j].matched_segment = "STAFF BUS"
           /\ locals[j].matched_rule = StaffBus
           /\ locals[j].payout = (PayinOf(j) * 88) \div 100
           /\ (/\ policy_data[j].d["Segment"] = StrV("BUS")
               /\ Get(policy_data[j].d, "Payin", NoneV) = StrV("40%")
               /\ company_name = "Acme"
               => Output(j, "Calculated Payout") = "35.20%")

-----------------------------------------------------------------------------
(* C8 *)

\* The Error record of a faulting record.
IsErrorRecord(j) ==
    /\ Output(j, "Calculated Payout") = "Error"
    /\ Output(j, "Formula Used") = "Error in calculation"
    /\ Output(j, "Rule Explanation") = "Error: " \o locals[j].error

\* C8: per-record fault isolation. A call of apply_formula_directly on a batch
\* that is not empty returns normally, with one output record per input record
\* in input order: the Error record for a record that faulted, and for every
\* other record the result it gets when processed alone.
C8_FaultIsolation ==
    entry = "apply_formula_directly" /\ Len(policy_data) > 0 =>
        /\ pc # "raised"
        /\ pc = "returned" =>
            /\ Len(calculated_data) = Len(policy_data)
            /\ \A j \in 1..Len(policy_data) :
                 IF locals[j].ok
                 THEN calculated_data[j] = TryRecord(policy_data[j], company_name).result
                 ELSE IsErrorRecord(j)

-----------------------------------------------------------------------------
(* C9 *)

\* The raw payin of record j as classify_payin cleans it.
CleanPayin(j) ==
    Strip(Replace(Replace(PyStr(Get(policy_data[j].d, "Payin", StrV("0%"))), "%", ""),
                  " ", ""))

\* C9: payin parse defaults. classify_payin raises for no input (the
\* classification of a record that is a mapping never fails); a payin that is
\* empty once '%' and whitespace are stripped, is 'N/A' in any case, or does not
\* parse as a number gives (0.0, 'Payin Below 20%'), and '35%' gives
\* (35.0, 'Payin 31% to 50%').
C9_ParseDefaults ==
    /\ entry = "process_files" /\ pc = "raised" /\ i <= Len(policy_data)
         => ~IsDict(policy_data[i])
    /\ \A j \in Classified :
         LET d == policy_data[j].d
             clean == CleanPayin(j)
         IN /\ {"Payin_Value", "Payin_Category"} \subseteq DOMAIN d
            /\ (clean = "" \/ Upper(clean) = "N/A" \/ ~ParseFloat(clean).ok)
                 => d["Payin_Value"] = FloatV(0) /\ d["Payin_Category"] = StrV("Payin Below 20%")
            /\ Get(d, "Payin", NoneV) = StrV("35%")
                 => d["Payin_Value"] = FloatV(3500)
                    /\ d["Payin_Category"] = StrV("Payin 31% to 50%")

\* A classified record whose payin text is 'N/A'.
C9_Witness ==
    \E j \in Classified :
        /\ Get(policy_data[j].d, "Payin", NoneV) = StrV("N/A")
        /\ policy_data[j].d["Payin_Value"] = FloatV(0)
        /\ policy_data[j].d["Payin_Category"] = StrV("Payin Below 20%")

-----------------------------------------------------------------------------
(* C10 *)

\* C10: non-negative payin. After normalisation every record's Payin_Value is
\* >= 0, whatever the raw payin text.
C10_PayinNonNegative ==
    \A j \in Classified : policy_data[j].d["Payin_Value"].h >= 0

-----------------------------------------------------------------------------
(* C11 *)

\* process_files is calling, or has called, apply_formula_directly.
AtEvaluation ==
    /\ entry = "process_files"
    /\ pc = "apply" \/ (pc = "classify" /\ i > Len(policy_data))

\* C11: bracket consistency at evaluation time. When process_files calls
\* apply_formula_directly, every record has a Payin_Value and a Payin_Category,
\* and the Payin_Category is the bracket classify_payin gives for the
\* Payin_Value, also for a record that came with Payin_Value or Payin_Category
\* keys of its own and for one whose payin did not parse.
C11_BracketConsistency ==
    AtEvaluation =>
        \A j \in 1..Len(policy_data) :
            LET d == policy_data[j].d
            IN /\ {"Payin_Value", "Payin_Category"} \subseteq DOMAIN d
               /\ d["Payin_Category"] = StrV(classify_payin(d["Payin_Value"])[2])

\* The record that came with Payin_Value 99.0 and Payin_Category 'Payin 21% to
\* 30%' (the one TAXI record without a Remarks key), at the call, with the
\* value and the bracket of its payin '15%'.
C11_Witness ==
    /\ AtEvaluation
    /\ \E j \in 1..Len(policy_data) :
         LET d == policy_data[j].d
         IN /\ "Remarks" \notin DOMAIN d
            /\ d["Segment"] = StrV("TAXI")
            /\ d["Payin_Value"] = FloatV(1500)
            /\ d["Payin_Category"] = StrV("Payin Below 20%")

-----------------------------------------------------------------------------
(* C12 *)

\* C12: no-match explanation. Whenever no entry of the table matches a record,
\* the output record's Rule Explanation is the non-empty text
\* 'no rule for <lob>/<segment>/<company>' with the record's LOB, its segment
\* and the requesting company.
C12_NoMatchExplanation ==
    \A j \in Computed :
        locals[j].matched_rule = 0 =>
            /\ Output(j, "Rule Explanation") # ""
            /\ Output(j, "Rule Explanation") =
                   "no rule for " \o locals[j].lob \o "/"
                   \o PyStr(Get(policy_data[j].d, "Segment", StrV(""))) \o "/" \o company_name

-----------------------------------------------------------------------------
(* C13 *)

\* Record j is a mapping whose Payin_Value is a number and whose
\* Payin_Category is a text.
WellTyped(j) ==
    /\ IsDict(policy_data[j])
    /\ IsNumber(Get(policy_data[j].d, "Payin_Value", IntV(0)))
    /\ Get(policy_data[j].d, "Payin_Category", StrV("")).t = "str"

\* The LOB of record j, from its Segment and Remarks.
LobIn(j) ==
    LobOf(SegmentUpperOf(j), Upper(PyStr(Get(policy_data[j].d, "Remarks", StrV("")))))

\* C13: classification misses are not errors. A record (with a numeric payin
\* and a textual bracket) whose LOB resolves to UNKNOWN matches no rule,
\* whatever the company and the payin; and whenever no rule matches, the output
\* record is not an Error record: Formula Used is 'No matching rule found' and
\* Calculated Payout is the record's own payin formatted as a percentage.
C13_MissNotError ==
    \A j \in Processed :
        WellTyped(j) =>
            /\ locals[j].ok /\ locals[j].lob = LobIn(j)
            /\ LobIn(j) = "UNKNOWN" => Satisfying(j) = {} /\ locals[j].matched_rule = 0
            /\ Satisfying(j) = {} =>
                 /\ Output(j, "Formula Used") = "No matching rule found"
                 /\ Output(j, "Calculated Payout") = FormatPercent(PayinOf(j))
                 /\ Output(j, "Calculated Payout") # "Error"

\* A record of LOB UNKNOWN with the payin -5.0, given back with '-5.00%'.
C13_Witness ==
    \E j \in Processed :
        /\ WellTyped(j)
        /\ LobIn(j) = "UNKNOWN"
        /\ PayinOf(j) = -50000
        /\ Output(j, "Formula Used") = "No matching rule found"
        /\ Output(j, "Calculated Payout") = "-5.00%"

-----------------------------------------------------------------------------
(* C14 *)

ResultKeys == {"Calculated Payout", "Formula Used", "Rule Explanation"}

\* C14: idempotence. When apply_formula_directly is called again, with the
\* same company name, on the records it returned (which carry the three result
\* keys), the call returns, and every record it gives back has the same Formula
\* Used, the same Calculated Payout and the same Rule Explanation as in the
\* first run.
C14_Idempotent ==
    first_run # <<>> =>
        /\ pc # "raised"
        /\ \A j \in 1..Len(calculated_data) :
             \A key \in ResultKeys : calculated_data[j].d[key] = first_run[j].d[key]
        /\ pc = "returned" => Len(calculated_data) = Len(first_run)

\* A second run that has returned a record with a matched rule and an Error
\* record.
C14_Witness ==
    /\ first_run # <<>> /\ pc = "returned"
    /\ \E j \in 1..Len(calculated_data) :
         /\ "Formula Used" \in DOMAIN policy_data[j].d
         /\ Output(j, "Calculated Payout") = "35.20%"
    /\ \E j \in 1..Len(calculated_data) :
         /\ policy_data[j].d["Calculated Payout"] = StrV("Error")
         /\ Output(j, "Calculated Payout") = "Error"

-----------------------------------------------------------------------------
(* C15 *)

\* C15: frame condition of evaluation. Every step of apply_formula_directly,
\* on the success path and on the per-record error path, leaves FORMULA_DATA
\* (length, order, every field of every entry), every input record and the
\* company name as they are; it only builds the list of output records.
C15_Frame ==
    [][ApplyEnter \/ ApplyRecord \/ ApplyReturn =>
          /\ formula_data' = formula_data
          /\ formula_data' = FORMULA_DATA
          /\ policy_data' = policy_data
          /\ company_name' = company_name]_vars

\* A first call that has returned a computed record and an Error record, the
\* input records still without the result keys.
C15_Witness ==
    /\ entry = "apply_formula_directly" /\ pc = "returned" /\ first_run = <<>>
    /\ \E j \in Processed : locals[j].ok /\ locals[j].matched_rule > 0
    /\ \E j \in Processed : ~locals[j].ok /\ Output(j, "Calculated Payout") = "Error"
    /\ \A j \in Processed : DOMAIN policy_data[j].d \cap ResultKeys = {}
    /\ formula_data = FORMULA_DATA

-----------------------------------------------------------------------------
(* C16 *)

\* The output record of a record evaluated on its own.
AloneResult(record, name) ==
    IF TryRecord(record, name).ok THEN TryRecord(record, name).result
    ELSE ExceptRecord(record, TryRecord(record, name).error).result

\* C16: record independence. The output record for the input record at
\* position j depends on that record and the company name only: whatever the
\* other elements of the batch are (records of other rules, faulting ones), a
\* call that has ended has produced for it the output record it gets on its own.
C16_Independence ==
    entry = "apply_formula_directly" /\ pc \in {"returned", "raised"} =>
        \A j \in 1..Len(policy_data) :
            IsDict(policy_data[j]) =>
                /\ pc = "returned"
                /\ calculated_data[j] = AloneResult(policy_data[j], company_name)

-----------------------------------------------------------------------------
(* C17 *)

\* What a PO text asks for, on a payin of tt ten-thousandths.
PayoutOfText(po, tt) ==
    CASE po = "90% of Payin" -> (tt * 90) \div 100
      [] po = "88% of Payin" -> (tt * 88) \div 100
      [] po = "Less 2% of Payin" -> tt - 20000
      [] po = "-2%" -> tt - 20000
      [] po = "-3%" -> tt - 30000
      [] po = "-4%" -> tt - 40000
      [] po = "-5%" -> tt - 50000

\* C17: payout formula application. Whenever a rule is matched, the payout is
\* the rule's PO text applied to the record's payin, clamped at zero: '90% of
\* Payin' gives 0.90 x payin, '88% of Payin' 0.88 x payin, '-k%' (k in 2..5)
\* payin - k, 'Less 2% of Payin' payin - 2; 90% of 60.0 is 54.00 and -5% applied
\* to 3.0 is 0.00.
C17_FormulaApplication ==
    \A j \in Computed :
        locals[j].matched_rule # 0 =>
            LET po == FORMULA_DATA[locals[j].matched_rule].PO
                expected == Max(0, PayoutOfText(po, PayinOf(j)))
            IN /\ Output(j, "Formula Used") = po
               /\ locals[j].payout = expected
               /\ Output(j, "Calculated Payout") = FormatPercent(expected)
               /\ po = "90% of Payin" /\ PayinOf(j) = 600000
                    => Output(j, "Calculated Payout") = "54.00%"
               /\ po = "-5%" /\ PayinOf(j) = 30000
                    => Output(j, "Calculated Payout") = "0.00%"

\* A record with the payin 3.0 given a '-5%' rule and the payout '0.00%'.
C17_Witness ==
    \E j \in Computed :
        /\ locals[j].matched_rule # 0
        /\ Output(j, "Formula Used") = "-5%"
        /\ PayinOf(j) = 30000
        /\ Output(j, "Calculated Payout") = "0.00%"

-----------------------------------------------------------------------------
(* C18 *)

\* C18: an empty batch is fatal. When the parsed batch holds no record,
\* process_files returns no result (no metrics, no calculated data): it raises,
\* process_policy answers with a status outside 2xx, and the formula
\* application produces nothing for the request.
C18_EmptyBatchFatal ==
    entry = "process_files" /\ Len(policy_data) = 0 /\ pc # "start" =>
        /\ pc = "raised"
        /\ raised = "AI parsing failed: Parsed data is empty"
        /\ status = 400
        /\ calculated_data = <<>> /\ locals = <<>>
        /\ metrics = NoMetrics

\* process_files has raised on the empty batch.
C18_Witness ==
    /\ entry = "process_files" /\ policy_data = <<>>
    /\ pc = "raised" /\ status = 400

-----------------------------------------------------------------------------
(* C19 *)

\* C19: the summary's distinct-segment count. unique_segments is the number of
\* distinct resolved segment labels among the batch's records: 'BUS' and
\* 'STAFF BUS', both resolved to STAFF BUS, count once.
C19_UniqueSegments ==
    entry = "process_files" /\ pc = "returned" =>
        metrics.unique_segments =
            Cardinality({locals[j].matched_segment : j \in 1..Len(locals)})

-----------------------------------------------------------------------------
(* C20 *)

\* The entries whose remarks hold a payin-bracket phrase (and no NIL).
PayinBracketRules ==
    {k \in 1..Len(FORMULA_DATA) :
        /\ ~Contains("NIL", Upper(FORMULA_DATA[k].REMARKS))
        /\ AnyIn(PayinPhrases, FORMULA_DATA[k].REMARKS)}

\* C20: the payin-bracket remarks condition. A rule whose remarks hold a
\* payin-bracket phrase is selected for a record only if its remarks text
\* equals the record's bracket label; for a record whose label differs, or whose
\* Payin_Category is missing or empty, the rule is skipped.
C20_BracketRemarks ==
    \A j \in Computed :
        locals[j].matched_rule \in PayinBracketRules =>
            StrV(FORMULA_DATA[locals[j].matched_rule].REMARKS)
                = Get(policy_data[j].d, "Payin_Category", NoneV)

-----------------------------------------------------------------------------
(* C21 *)

\* LOB, segment and insurer scope of rule k hold for record j.
ThreeConditions(k, j) ==
    LET rule == FORMULA_DATA[k]
        lob == locals[j].lob
    IN /\ rule.LOB = lob
       /\ SegmentMatch(rule, lob, SegmentUpperOf(j), locals[j].matched_segment)
       /\ CompanyMatch(rule, CompanyNormalized(company_name))

\* Remarks that are free text without a payin-bracket phrase.
FreeText(remarks) == remarks \notin {"NIL", ""} /\ ~AnyIn(PayinPhrases, remarks)

\* C21: unconditional remarks. A rule whose remarks are 'NIL', empty, or free
\* text without a payin-bracket phrase ('All Fuel', 'Zuno - 21') is selected,
\* whatever the payin and its bracket, as soon as its LOB, segment and insurer
\* scope match and no earlier entry matched; for free text the Rule Explanation
\* holds the rule's remarks text. (No entry of the table has empty remarks: the
\* remarks branch is checked on such a rule directly.)
C21_UnconditionalRemarks ==
    /\ \A c \in {StrV(""), StrV("Payin Below 20%"), StrV("Payin Above 50%"), NoneV} :
         RemarksVerdict(Rule("TAXI", "TAXI", "All Companies", "-2%", ""), c) = "other"
    /\ \A j \in Computed :
         \A k \in 1..Len(FORMULA_DATA) :
            LET remarks == FORMULA_DATA[k].REMARKS
            IN /\ remarks = "NIL" \/ remarks = "" \/ FreeText(remarks)
               /\ ThreeConditions(k, j)
               /\ \A m \in 1..(k - 1) : ~FourConditions(m, j)
               => /\ locals[j].matched_rule = k
                  /\ FreeText(remarks) => Contains(remarks, Output(j, "Rule Explanation"))

\* A record of bracket 'Payin Above 50%' given the rule with remarks 'Zuno - 21'.
C21_Witness ==
    \E j \in Computed :
        /\ locals[j].matched_rule # 0
        /\ FORMULA_DATA[locals[j].matched_rule].REMARKS = "Zuno - 21"
        /\ PayinCategoryIn(j) = StrV("Payin Above 50%")
        /\ Contains("Remarks=Zuno - 21", Output(j, "Rule Explanation"))

-----------------------------------------------------------------------------
(* C22 *)

UptoKeywords == {"UPTO 2.5", "2.5 TN", "2.5 GVW"}

\* C22: the CV segment buckets are exclusive. A CV record whose segment holds
\* an upto-2.5 tonnage keyword segment-matches the 'Upto 2.5 GVW' rule segment
\* only, a CV record without one 'All GVW & PCV 3W, GCV 3W' only; for every
\* company and payin an upto-2.5 record is never given a rule of the 'All GVW
\* & PCV 3W, GCV 3W' group.
C22_CvBuckets ==
    \A j \in Computed :
        locals[j].lob = "CV" =>
            LET upto == AnyIn(UptoKeywords, SegmentUpperOf(j))
                bucket == IF upto THEN "Upto 2.5 GVW" ELSE "All GVW & PCV 3W, GCV 3W"
                m == locals[j].matched_rule
            IN /\ \A k \in 1..Len(FORMULA_DATA) :
                    FORMULA_DATA[k].LOB = "CV" =>
                        (SegmentMatch(FORMULA_DATA[k], "CV", SegmentUpperOf(j),
                                      locals[j].matched_segment)
                           <=> FORMULA_DATA[k].SEGMENT = bucket)
               /\ upto /\ m # 0 => FORMULA_DATA[m].SEGMENT # "All GVW & PCV 3W, GCV 3W"

-----------------------------------------------------------------------------
(* C23 *)

\* C23: PVT CAR COMP/TP mutual exclusion. For every PVT CAR segment text at
\* most one of the rule segments 'PVT CAR COMP + SAOD' and 'PVT CAR TP'
\* segment-matches: a text that matches the COMP rule through any of its
\* keywords and also holds TP does not segment-match the TP rule.
C23_CompTpExclusive ==
    \A j \in Computed :
        locals[j].lob = "PVT CAR" =>
            \A a, b \in 1..Len(FORMULA_DATA) :
                /\ FORMULA_DATA[a].SEGMENT = "PVT CAR COMP + SAOD"
                /\ FORMULA_DATA[b].SEGMENT = "PVT CAR TP"
                => ~(/\ SegmentMatch(FORMULA_DATA[a], "PVT CAR", SegmentUpperOf(j),
                                     locals[j].matched_segment)
                     /\ SegmentMatch(FORMULA_DATA[b], "PVT CAR", SegmentUpperOf(j),
                                     locals[j].matched_segment))

-----------------------------------------------------------------------------
(* C24 *)

\* The keyword sets of the LOB chain, in its order.
KeywordSets ==
    << [lob |-> "TW", keywords |-> {"TW", "2W", "TWO WHEELER", "TWO-WHEELER"}],
       [lob |-> "PVT CAR", keywords |-> {"PVT CAR", "PRIVATE CAR", "CAR", "PCI"}],
       [lob |-> "CV", keywords |-> {"CV", "COMMERCIAL", "LCV", "GVW", "TN", "UPTO", "ALL GVW",
                                    "PCV", "GCV"}],
       [lob |-> "BUS", keywords |-> {"BUS"}],
       [lob |-> "TAXI", keywords |-> {"TAXI"}],
       [lob |-> "MISD", keywords |-> {"MISD", "TRACTOR", "MISC", "AMBULANCE", "POLICE VAN",
                                      "GARBAGE VAN"}] >>

\* C24: LOB precedence and remarks fallback. A record's LOB is that of the
\* first keyword set, in the order TW, PVT CAR, CV, BUS, TAXI, MISD, with a
\* keyword in the upper-cased segment text, so a segment with keywords of
\* several sets gets the earliest; only when no set matches the segment are the
\* remarks read: TATA, MARUTI, GVW or TN there give CV, anything else UNKNOWN.
C24_LobPrecedence ==
    \A j \in Computed :
        LET hits == {n \in 1..Len(KeywordSets) :
                        \E w \in KeywordSets[n].keywords : Contains(w, SegmentUpperOf(j))}
            remarks_upper == Upper(PyStr(Get(policy_data[j].d, "Remarks", StrV(""))))
        IN IF hits # {}
           THEN \E n \in hits : /\ \A h \in hits : n <= h
                                 /\ locals[j].lob = KeywordSets[n].lob
           ELSE IF \E w \in {"TATA", "MARUTI", "GVW", "TN"} : Contains(w, remarks_upper)
           THEN locals[j].lob = "CV"
           ELSE locals[j].lob = "UNKNOWN"

\* A segment with a TAXI and a PVT CAR keyword, and remarks that name TATA,
\* classified PVT CAR.
C24_Witness ==
    \E j \in Computed :
        /\ SegmentUpperOf(j) = "TAXI CAR"
        /\ Get(policy_data[j].d, "Remarks", NoneV) = StrV("Tata Ace")
        /\ locals[j].lob = "PVT CAR"

-----------------------------------------------------------------------------
(* C25 *)

\* C25: the TW keyword set. Every record whose upper-cased segment text holds
\* TW, 2W, MC, SC, 1+5 or TWO WHEELER is of LOB TW, whatever else the segment
\* and the remarks hold: a segment that is just '1+5', or holds MC or SC and
\* none of the other keywords, is TW.
C25_TwKeywords ==
    \A j \in Computed :
        AnyIn({"TW", "2W", "MC", "SC", "1+5", "TWO WHEELER"}, SegmentUpperOf(j))
            => locals[j].lob = "TW"

-----------------------------------------------------------------------------
(* C26 *)

\* The DIGIT-scoped entries of the segment 'TW SAOD + COMP'.
DigitRules ==
    {k \in 1..Len(FORMULA_DATA) :
        FORMULA_DATA[k].SEGMENT = "TW SAOD + COMP" /\ FORMULA_DATA[k].INSURER = "DIGIT"}

\* C26: the shadowed DIGIT rules. For every TW record whose segment text holds
\* SAOD, COMP, PACKAGE, 1ST PARTY or 1+1, for every company (DIGIT included)
\* and payin bracket, the rule selected is an 'All Companies' rule with the
\* formula '90% of Payin'; the four DIGIT-scoped 'TW SAOD + COMP' entries are
\* selected for no input.
C26_DigitShadowed ==
    /\ Cardinality(DigitRules) = 4
    /\ \A j \in Computed :
         /\ locals[j].matched_rule \notin DigitRules
         /\ (/\ locals[j].lob = "TW"
             /\ AnyIn({"SAOD", "COMP", "PACKAGE", "1ST PARTY", "1+1"}, SegmentUpperOf(j)))
             => /\ locals[j].matched_rule # 0
                /\ FORMULA_DATA[locals[j].matched_rule].INSURER = "All Companies"
                /\ FORMULA_DATA[locals[j].matched_rule].PO = "90% of Payin"
                /\ Output(j, "Formula Used") = "90% of Payin"

\* A TW SAOD record of bracket 'Payin Below 20%' for the company Digit, given
\* the All Companies entry.
C26_Witness ==
    \E j \in Computed :
        /\ company_name = "Digit"
        /\ SegmentUpperOf(j) = "TW SAOD"
        /\ PayinCategoryIn(j) = StrV("Payin Below 20%")
        /\ PayinOf(j) = 150000
        /\ Output(j, "Formula Used") = "90% of Payin"
        /\ Output(j, "Calculated Payout") = "13.50%"

====
